---- MODULE Spec2Model ----
(***************************************************************************)
(* Model of app/main.py: a Streamlit script that fetches daily closes for  *)
(* one or two symbols, adds the MA20 and RSI(14) columns, fetches news     *)
(* headlines, labels their sentiment, and memoizes both fetchers with      *)
(* st.cache_data.                                                          *)
(*                                                                         *)
(* Numbers: closes are integers; a float that the code derives from them   *)
(* is an exact rational [kind |-> "num", n, d] in lowest terms, or one of  *)
(* the IEEE specials NaN and Inf, which is what numpy produces for 0/0 and *)
(* x/0.  Compound sentiment scores are integers in units of 0.0001 (VADER  *)
(* rounds the compound score to four decimals).                            *)
(***************************************************************************)
EXTENDS Integers, Sequences, FiniteSets, TLC

VARIABLES
  symbol1,      \* first text input, upper-cased and stripped
  symbol2,      \* second text input ("" when left empty)
  period,       \* selected time period
  api_key,      \* module-level News API key
  now,          \* wall clock, seconds
  stock_cache,  \* st.cache_data store of fetch_stock_data
  news_cache,   \* st.cache_data store of fetch_financial_news
  pc,           \* position of the script run
  data1, error1, data2, error2,   \* script globals of tab1
  lastStock,    \* log of the latest fetch_stock_data call
  stock_gen,    \* per key: the latest execution of fetch_stock_data's body
  lastNews,     \* log of the latest display_news_sentiment call
  news_gen      \* per key: the latest execution of fetch_financial_news's body

vars == <<symbol1, symbol2, period, api_key, now, stock_cache, news_cache, pc,
          data1, error1, data2, error2, lastStock, stock_gen, lastNews, news_gen>>

----------------------------------------------------------------------------
(* Bounds of the model *)

MaxLen == 24
BasePrice == 100
Tick == 1800
MaxNow == 3600

----------------------------------------------------------------------------
(* Python values *)

None == [kind |-> "None"]
Unbound == [kind |-> "unbound"]
Str(t) == [kind |-> "str", text |-> t]
Truthy(x) ==
  CASE x.kind = "None" -> FALSE
    [] x.kind = "str" -> x.text # ""
    [] x.kind = "list" -> x.items # <<>>
    [] OTHER -> TRUE

----------------------------------------------------------------------------
(* Float arithmetic on exact rationals with the IEEE specials.  Every       *)
(* operand the program produces is >= 0.                                    *)

RECURSIVE GCD(_, _)
GCD(a, b) == IF b = 0 THEN a ELSE GCD(b, a % b)

Abs(x) == IF x < 0 THEN -x ELSE x

NaN == [kind |-> "nan"]
Inf == [kind |-> "inf"]
Num(n, d) ==
  LET g == GCD(Abs(n), d) IN [kind |-> "num", n |-> n \div g, d |-> d \div g]

FDiv(a, b) ==
  IF a.kind = "nan" \/ b.kind = "nan" THEN NaN
  ELSE IF a.kind = "inf" THEN (IF b.kind = "inf" THEN NaN ELSE Inf)
  ELSE IF b.kind = "inf" THEN Num(0, 1)
  ELSE IF b.n = 0 THEN (IF a.n = 0 THEN NaN ELSE Inf)
  ELSE Num(a.n * b.d, a.d * b.n)

FAdd(a, b) ==
  IF a.kind = "nan" \/ b.kind = "nan" THEN NaN
  ELSE IF a.kind = "inf" \/ b.kind = "inf" THEN Inf
  ELSE Num(a.n * b.d + b.n * a.d, a.d * b.d)

\* a - b for a finite a and b >= 0
FSub(a, b) ==
  IF a.kind = "nan" \/ b.kind = "nan" THEN NaN
  ELSE IF b.kind = "inf" THEN [kind |-> "-inf"]
  ELSE Num(a.n * b.d - b.n * a.d, a.d * b.d)

----------------------------------------------------------------------------
(* pandas column operations used by fetch_stock_data *)

RECURSIVE SumRange(_, _, _)
SumRange(x, lo, hi) == IF lo > hi THEN 0 ELSE x[lo] + SumRange(x, lo + 1, hi)

\* rolling sum of the window that ends at i (i >= w): the first full window is
\* summed, every later one adds the entering and removes the leaving sample
RECURSIVE RollSum(_, _, _)
RollSum(x, w, i) ==
  IF i = w THEN SumRange(x, 1, w) ELSE RollSum(x, w, i - 1) + x[i] - x[i - w]

\* Series.rolling(w).mean(): min_periods defaults to the window
RollingMean(x, w) ==
  [i \in 1..Len(x) |-> IF i < w THEN NaN ELSE Num(RollSum(x, w, i), w)]

\* Series.diff(): the first cell has no predecessor
Diff(x) == [i \in 1..Len(x) |-> IF i = 1 THEN NaN ELSE Num(x[i] - x[i - 1], 1)]

\* delta.where(delta > 0, 0): a NaN cell fails the condition and becomes 0
Gain(delta) ==
  [i \in 1..Len(delta) |->
     IF delta[i].kind = "num" /\ delta[i].n > 0 THEN delta[i].n ELSE 0]

\* -delta.where(delta < 0, 0)
Loss(delta) ==
  [i \in 1..Len(delta) |->
     IF delta[i].kind = "num" /\ delta[i].n < 0 THEN -delta[i].n ELSE 0]

MAWindow == 20
RSIWindow == 14

RSIColumn(close) ==
  LET delta == Diff(close)
      avg_gain == RollingMean(Gain(delta), RSIWindow)
      avg_loss == RollingMean(Loss(delta), RSIWindow)
  IN [i \in 1..Len(close) |->
        LET rs == FDiv(avg_gain[i], avg_loss[i])
        IN FSub(Num(100, 1), FDiv(Num(100, 1), FAdd(Num(1, 1), rs)))]

\* a window one sample short
MA20ColumnShortWindow(close) == RollingMean(close, MAWindow - 1)

MA20Column(close) == RollingMean(close, MAWindow)

\* The body of fetch_stock_data for one answer of yf.download
FetchStockDataBody(symbol, download) ==
  IF download.kind = "raise"
  THEN [data |-> None,
        error |-> [kind |-> "str", text |-> "Error fetching data for", symbol |-> symbol]]
  ELSE IF download.Close = <<>>
  THEN [data |-> None,
        error |-> [kind |-> "str", text |-> "No data available for", symbol |-> symbol]]
  ELSE [data |-> [kind |-> "DataFrame",
                  columns |-> {"Close", "MA20", "RSI"},
                  Close |-> download.Close,
                  MA20 |-> MA20Column(download.Close),
                  RSI |-> RSIColumn(download.Close)],
        error |-> None]

----------------------------------------------------------------------------
(* st.cache_data: one store per decorated function, keyed by the call's     *)
(* arguments; an entry is served while now < storedAt + ttl and is          *)
(* recomputed and overwritten by the first call after that.                 *)

StockTTL == 3600
NewsTTL == 1800

NoEntry == [kind |-> "absent"]

CacheValid(entry, ttl, t) == entry.kind = "entry" /\ t < entry.storedAt + ttl

\* a store that keeps successes only
CacheStoreSuccessOnly(cache, key, value, t) ==
  IF ("data" \in DOMAIN value /\ value.data.kind = "None")
     \/ ("articles" \in DOMAIN value /\ value.articles.kind = "None")
  THEN cache
  ELSE [cache EXCEPT ![key] = [kind |-> "entry", value |-> value, storedAt |-> t]]

CacheStore(cache, key, value, t) ==
  [cache EXCEPT ![key] = [kind |-> "entry", value |-> value, storedAt |-> t]]

\* a key that leaves the period out
StockKeySymbolOnly(symbol, time_period) == <<symbol, "3mo">>

StockKey(symbol, time_period) == <<symbol, time_period>>
NewsKey(symbol, api_key_input) == <<symbol, api_key_input>>

\* fetch_stock_data as decorated: the call made at time t, with the answer
\* yf.download would give if the body runs
fetch_stock_data(cache, t, symbol, time_period, download) ==
  LET key == StockKey(symbol, time_period)
      hit == CacheValid(cache[key], StockTTL, t)
      value == IF hit THEN cache[key].value ELSE FetchStockDataBody(symbol, download)
  IN [value |-> value,
      ran |-> ~hit,
      cache |-> IF hit THEN cache ELSE CacheStore(cache, key, value, t)]

----------------------------------------------------------------------------
(* News fetch *)

\* The messages are the source's, without their leading emoji.
ShippedApiKey == "your_api_key_here"
PlaceholderApiKey == "YOUR_API_KEY_HERE"

MsgNotConfigured == "API key not configured. Please add your News API key in the code."
MsgNoNews == "No recent news found for this stock. Try checking the symbol or try again later."
MsgInvalidKey == "Invalid API key. Please check your News API key and try again."
MsgUpgrade == "API upgrade required. Your current plan doesn't support the requested domains."
MsgRateLimit == "API rate limit exceeded (100 requests/day on free tier). Please try again later or upgrade your plan."
MsgHttp == "API Error: HTTP"
MsgTimeout == "Request timeout. Please check your internet connection and try again."
MsgConnection == "Connection error. Please check your internet connection."
MsgOther == "Error fetching news:"

List(items) == [kind |-> "list", items |-> items]

\* `not api_key_input or api_key_input == "YOUR_API_KEY_HERE"`
KeyNotConfigured(api_key_input) ==
  api_key_input = "" \/ api_key_input = PlaceholderApiKey

\* the body without the 429 branch
FetchFinancialNewsBodyNo429(symbol, api_key_input, response) ==
  IF KeyNotConfigured(api_key_input)
  THEN [requested |-> FALSE, articles |-> None, error |-> Str(MsgNotConfigured)]
  ELSE IF response.kind = "timeout"
  THEN [requested |-> TRUE, articles |-> None, error |-> Str(MsgTimeout)]
  ELSE IF response.kind = "connection"
  THEN [requested |-> TRUE, articles |-> None, error |-> Str(MsgConnection)]
  ELSE IF response.kind = "raise"
  THEN [requested |-> TRUE, articles |-> None, error |-> Str(MsgOther)]
  ELSE IF response.status = 200
  THEN IF response.articles = <<>>
       THEN [requested |-> TRUE, articles |-> List(<<>>), error |-> Str(MsgNoNews)]
       ELSE [requested |-> TRUE, articles |-> List(response.articles), error |-> None]
  ELSE IF response.status = 401
  THEN [requested |-> TRUE, articles |-> None, error |-> Str(MsgInvalidKey)]
  ELSE IF response.status = 426
  THEN [requested |-> TRUE, articles |-> None, error |-> Str(MsgUpgrade)]
  ELSE [requested |-> TRUE, articles |-> None,
        error |-> [kind |-> "str", text |-> MsgHttp, code |-> response.status]]

\* The body of fetch_financial_news; response is what requests.get does if it
\* is called: an HTTP response or a raised exception
FetchFinancialNewsBody(symbol, api_key_input, response) ==
  IF KeyNotConfigured(api_key_input)
  THEN [requested |-> FALSE, articles |-> None, error |-> Str(MsgNotConfigured)]
  ELSE IF response.kind = "timeout"
  THEN [requested |-> TRUE, articles |-> None, error |-> Str(MsgTimeout)]
  ELSE IF response.kind = "connection"
  THEN [requested |-> TRUE, articles |-> None, error |-> Str(MsgConnection)]
  ELSE IF response.kind = "raise"
  THEN [requested |-> TRUE, articles |-> None, error |-> Str(MsgOther)]
  ELSE IF response.status = 200
  THEN IF response.articles = <<>>
       THEN [requested |-> TRUE, articles |-> List(<<>>), error |-> Str(MsgNoNews)]
       ELSE [requested |-> TRUE, articles |-> List(response.articles), error |-> None]
  ELSE IF response.status = 401
  THEN [requested |-> TRUE, articles |-> None, error |-> Str(MsgInvalidKey)]
  ELSE IF response.status = 426
  THEN [requested |-> TRUE, articles |-> None, error |-> Str(MsgUpgrade)]
  ELSE IF response.status = 429
  THEN [requested |-> TRUE, articles |-> None, error |-> Str(MsgRateLimit)]
  ELSE [requested |-> TRUE, articles |-> None,
        error |-> [kind |-> "str", text |-> MsgHttp, code |-> response.status]]

\* fetch_financial_news as decorated
fetch_financial_news(cache, t, symbol, api_key_input, response) ==
  LET key == NewsKey(symbol, api_key_input)
      hit == CacheValid(cache[key], NewsTTL, t)
      body == FetchFinancialNewsBody(symbol, api_key_input, response)
      value == IF hit THEN cache[key].value
               ELSE [articles |-> body.articles, error |-> body.error]
  IN [value |-> value,
      ran |-> ~hit,
      requested |-> ~hit /\ body.requested,
      cache |-> IF hit THEN cache ELSE CacheStore(cache, key, value, t)]

----------------------------------------------------------------------------
(* Sentiment *)

PosThreshold == 500
NegThreshold == -500
DisplayLimit == 8
PageSize == 10

Headlines ==
  {"h_pos", "h_pos_edge", "h_neu_hi", "h_zero", "h_neu_lo", "h_neg_edge", "h_neg"}

\* SentimentIntensityAnalyzer().polarity_scores(text)['compound'], in 0.0001
Compound(text) ==
  CASE text = "h_pos" -> 6000
    [] text = "h_pos_edge" -> 500
    [] text = "h_neu_hi" -> 499
    [] text = "h_zero" -> 0
    [] text = "h_neu_lo" -> -499
    [] text = "h_neg_edge" -> -500
    [] text = "h_neg" -> -6000

\* strict comparisons at the thresholds
analyze_sentimentStrict(text) ==
  LET compound == Compound(text)
  IN IF compound > PosThreshold
     THEN [sentiment |-> "Positive", color |-> "green", compound |-> compound]
     ELSE IF compound < NegThreshold
     THEN [sentiment |-> "Negative", color |-> "red", compound |-> compound]
     ELSE [sentiment |-> "Neutral", color |-> "yellow", compound |-> compound]

analyze_sentiment(text) ==
  LET compound == Compound(text)
  IN IF compound >= PosThreshold
     THEN [sentiment |-> "Positive", color |-> "green", compound |-> compound]
     ELSE IF compound <= NegThreshold
     THEN [sentiment |-> "Negative", color |-> "red", compound |-> compound]
     ELSE [sentiment |-> "Neutral", color |-> "yellow", compound |-> compound]

Min(a, b) == IF a < b THEN a ELSE b

\* lines 216-248 of display_news_sentiment for the articles the loop visits
SummaryOf(shown) ==
  LET sentiment_data ==
        [i \in 1..Len(shown) |->
           LET r == analyze_sentiment(shown[i].title)
           IN [title |-> shown[i].title, sentiment |-> r.sentiment,
               color |-> r.color, score |-> r.compound]]
      sentiments == [i \in 1..Len(shown) |-> sentiment_data[i].score]
  IN [sentiment_data |-> sentiment_data,
      sentiments |-> sentiments,
      avg_sentiment |-> IF sentiments # <<>>
                        THEN Num(SumRange(sentiments, 1, Len(sentiments)), Len(sentiments))
                        ELSE Num(0, 1),
      positive_count |->
        Cardinality({i \in 1..Len(sentiments) : sentiments[i] >= PosThreshold}),
      neutral_count |->
        Cardinality({i \in 1..Len(sentiments) :
                       NegThreshold < sentiments[i] /\ sentiments[i] < PosThreshold}),
      negative_count |->
        Cardinality({i \in 1..Len(sentiments) : sentiments[i] <= NegThreshold})]

\* a loop over the whole list
SummarizeNoLimit(items) == SummaryOf(items)

\* `for article in articles[:8]`
Summarize(items) == SummaryOf(SubSeq(items, 1, Min(Len(items), DisplayLimit)))

NoSummary == [kind |-> "None"]

\* `"rate limit" in error.lower()`
MentionsRateLimit(error) == error.text = MsgRateLimit

\* display_news_sentiment: what it puts on the page, and the cache after it
display_news_sentiment(cache, t, symbol, api_key_input, response) ==
  IF KeyNotConfigured(api_key_input)
  THEN [cache |-> cache, fetched |-> FALSE, ran |-> FALSE, requested |-> FALSE,
        value |-> None,
        channel |-> "error", message |-> Str(MsgNotConfigured), tip |-> TRUE,
        summary |-> NoSummary]
  ELSE
    LET f == fetch_financial_news(cache, t, symbol, api_key_input, response)
        articles == f.value.articles
        error == f.value.error
    IN IF Truthy(error)
       THEN [cache |-> f.cache, fetched |-> TRUE, ran |-> f.ran,
             requested |-> f.requested, value |-> f.value,
             channel |-> "error", message |-> error,
             tip |-> MentionsRateLimit(error), summary |-> NoSummary]
       ELSE IF ~Truthy(articles)
       THEN [cache |-> f.cache, fetched |-> TRUE, ran |-> f.ran,
             requested |-> f.requested, value |-> f.value,
             channel |-> "info", message |-> Str("No recent news available for"),
             tip |-> FALSE, summary |-> NoSummary]
       ELSE [cache |-> f.cache, fetched |-> TRUE, ran |-> f.ran,
             requested |-> f.requested, value |-> f.value,
             channel |-> "metrics", message |-> None, tip |-> FALSE,
             summary |-> Summarize(articles.items)]

----------------------------------------------------------------------------
(* Inputs *)

Symbols == {"RELIANCE.NS", "TCS.NS"}
Periods == {"1mo", "3mo"}
ApiKeys == {ShippedApiKey, "", PlaceholderApiKey, "live-key"}

Frame(close) == [kind |-> "frame", Close |-> close]
Raise == [kind |-> "raise"]

\* answers of yf.download during a script run
Downloads == {Frame(<<BasePrice, BasePrice + 1, BasePrice - 1>>), Frame(<<>>), Raise}

\* L closes that move by a per bar for the first k bars and by b afterwards
Shape(L, k, a, b) ==
  [i \in 1..L |-> BasePrice + a * Min(i - 1, k) + b * (i - 1 - Min(i - 1, k))]

SeriesInputs ==
  {Frame(Shape(L, k, a, b)) : L \in 0..MaxLen, k \in 0..MaxLen,
                              a \in {-1, 0, 1}, b \in {-1, 0, 1}} \cup {Raise}

Http(status, articles) == [kind |-> "http", status |-> status, articles |-> articles]
Timeout == [kind |-> "timeout"]
ConnectionError == [kind |-> "connection"]
Article(title) == [title |-> title]

Statuses == {200, 204, 301, 401, 403, 426, 429, 500}

\* answers of requests.get during a script run
Responses ==
  {Http(200, <<Article("h_pos"), Article("h_neg_edge")>>), Http(200, <<>>),
   Http(401, <<>>), Http(429, <<>>), Http(500, <<>>), Timeout}

\* n articles whose headlines repeat h1, h2, h3
Page(n, h1, h2, h3) ==
  [i \in 1..n |-> Article(CASE i % 3 = 1 -> h1 [] i % 3 = 2 -> h2 [] OTHER -> h3)]

AllResponses ==
  {Http(200, Page(n, h1, h2, h3)) : n \in 0..PageSize, h1 \in Headlines,
                                    h2 \in Headlines, h3 \in Headlines}
  \cup {Http(s, <<>>) : s \in Statuses} \cup {Timeout, ConnectionError, Raise}

----------------------------------------------------------------------------
(* State *)

StockKeys == Symbols \X Periods
NewsKeys == Symbols \X ApiKeys

NoCall == [called |-> FALSE]
NoGen == [at |-> -1, value |-> None]

Init ==
  /\ symbol1 = "RELIANCE.NS"
  /\ symbol2 = "TCS.NS"
  /\ period = "3mo"
  /\ api_key \in ApiKeys
  /\ now = 0
  /\ stock_cache = [k \in StockKeys |-> NoEntry]
  /\ news_cache = [k \in NewsKeys |-> NoEntry]
  /\ pc = "stock1"
  /\ data1 = Unbound /\ error1 = Unbound
  /\ data2 = Unbound /\ error2 = Unbound
  /\ lastStock = NoCall
  /\ stock_gen = [k \in StockKeys |-> NoGen]
  /\ lastNews = NoCall
  /\ news_gen = [k \in NewsKeys |-> NoGen]

\* the bookkeeping of one fetch_stock_data call whose outcome is r
LogStock(symbol, time_period, r) ==
  LET k == <<symbol, time_period>>
  IN /\ stock_cache' = r.cache
     /\ lastStock' = [called |-> TRUE, key |-> k, at |-> now, ran |-> r.ran,
                      value |-> r.value, prevAt |-> stock_gen[k].at,
                      prevValue |-> stock_gen[k].value]
     /\ stock_gen' = IF r.ran
                     THEN [stock_gen EXCEPT ![k] = [at |-> now, value |-> r.value]]
                     ELSE stock_gen

\* the bookkeeping of one display_news_sentiment call whose outcome is r
LogNews(symbol, api_key_input, response, r) ==
  LET k == <<symbol, api_key_input>>
  IN /\ news_cache' = r.cache
     /\ lastNews' = [called |-> TRUE, key |-> k, at |-> now,
                     fetched |-> r.fetched, ran |-> r.ran,
                     requested |-> r.requested,
                     response |-> IF r.requested THEN response ELSE None,
                     value |-> r.value, prevAt |-> news_gen[k].at,
                     prevValue |-> news_gen[k].value,
                     channel |-> r.channel, message |-> r.message, tip |-> r.tip,
                     summary |-> r.summary]
     /\ news_gen' = IF r.ran
                    THEN [news_gen EXCEPT ![k] = [at |-> now, value |-> r.value]]
                    ELSE news_gen

----------------------------------------------------------------------------
(* One run of the script, top to bottom, and the reruns that follow it.  The *)
(* clock stands still in Spec; SpecCache below is where time passes.        *)

\* lines 273-286
Stock1 ==
  /\ pc = "stock1"
  /\ \E download \in Downloads :
       LET r == fetch_stock_data(stock_cache, now, symbol1, period, download)
       IN /\ LogStock(symbol1, period, r)
          /\ data1' = r.value.data
          /\ error1' = r.value.error
  /\ pc' = "stock2"
  /\ UNCHANGED <<symbol1, symbol2, period, api_key, now, news_cache,
                 data2, error2, lastNews, news_gen>>

\* lines 289-302, the condition holds
Stock2Fetch ==
  /\ pc = "stock2"
  /\ symbol2 # "" /\ symbol2 # symbol1
  /\ \E download \in Downloads :
       LET r == fetch_stock_data(stock_cache, now, symbol2, period, download)
       IN /\ LogStock(symbol2, period, r)
          /\ data2' = r.value.data
          /\ error2' = r.value.error
  /\ pc' = "compare"
  /\ UNCHANGED <<symbol1, symbol2, period, api_key, now, news_cache,
                 data1, error1, lastNews, news_gen>>

\* line 289, the condition fails: data2 and error2 are not assigned
Stock2Skip ==
  /\ pc = "stock2"
  /\ ~(symbol2 # "" /\ symbol2 # symbol1)
  /\ pc' = "compare"
  /\ UNCHANGED <<symbol1, symbol2, period, api_key, now, stock_cache, news_cache,
                 data1, error1, data2, error2, lastStock, stock_gen, lastNews,
                 news_gen>>

\* line 305: the operands of `and` are evaluated left to right, so data2 is
\* read exactly when the three operands before it are true
ReadsData2 == data1.kind # "None" /\ "Close" \in data1.columns /\ symbol2 # ""

\* lines 305-320; reading a name that was never assigned raises NameError,
\* which nothing catches: the run ends there
Compare ==
  /\ pc = "compare"
  /\ pc' = IF ReadsData2 /\ data2 = Unbound THEN "crashed" ELSE "news1"
  /\ UNCHANGED <<symbol1, symbol2, period, api_key, now, stock_cache, news_cache,
                 data1, error1, data2, error2, lastStock, stock_gen, lastNews,
                 news_gen>>

\* line 327
News1 ==
  /\ pc = "news1"
  /\ \E response \in Responses :
       LogNews(symbol1, api_key, response,
               display_news_sentiment(news_cache, now, symbol1, api_key, response))
  /\ pc' = "news2"
  /\ UNCHANGED <<symbol1, symbol2, period, api_key, now, stock_cache,
                 data1, error1, data2, error2, lastStock, stock_gen>>

\* lines 332-333, the condition holds
News2Show ==
  /\ pc = "news2"
  /\ symbol2 # "" /\ symbol2 # symbol1
  /\ \E response \in Responses :
       LogNews(symbol2, api_key, response,
               display_news_sentiment(news_cache, now, symbol2, api_key, response))
  /\ pc' = "done"
  /\ UNCHANGED <<symbol1, symbol2, period, api_key, now, stock_cache,
                 data1, error1, data2, error2, lastStock, stock_gen>>

\* line 332, the condition fails; lines 335-336 end the run
News2Skip ==
  /\ pc = "news2"
  /\ ~(symbol2 # "" /\ symbol2 # symbol1)
  /\ pc' = "done"
  /\ UNCHANGED <<symbol1, symbol2, period, api_key, now, stock_cache, news_cache,
                 data1, error1, data2, error2, lastStock, stock_gen, lastNews,
                 news_gen>>

\* A widget changes (lines 27-29): Streamlit runs the script again in a fresh
\* namespace; the cache stores outlive the run
Rerun ==
  /\ pc \in {"done", "crashed"}
  /\ symbol1' \in Symbols
  /\ symbol2' \in Symbols \cup {""}
  /\ period' \in Periods
  /\ pc' = "stock1"
  /\ data1' = Unbound /\ error1' = Unbound
  /\ data2' = Unbound /\ error2' = Unbound
  /\ lastStock' = NoCall
  /\ lastNews' = NoCall
  /\ UNCHANGED <<api_key, now, stock_cache, news_cache, stock_gen, news_gen>>

Next ==
  \/ Stock1 \/ Stock2Fetch \/ Stock2Skip \/ Compare
  \/ News1 \/ News2Show \/ News2Skip \/ Rerun

Spec == Init /\ [][Next]_vars

----------------------------------------------------------------------------
(* The two cached fetchers under a clock: calls of the script's call sites  *)
(* (lines 273, 290, 327, 333) at arbitrary times                            *)

IdleInit ==
  /\ symbol1 = "RELIANCE.NS"
  /\ symbol2 = "TCS.NS"
  /\ period = "3mo"
  /\ now = 0
  /\ stock_cache = [k \in StockKeys |-> NoEntry]
  /\ news_cache = [k \in NewsKeys |-> NoEntry]
  /\ pc = "idle"
  /\ data1 = Unbound /\ error1 = Unbound
  /\ data2 = Unbound /\ error2 = Unbound
  /\ lastStock = NoCall
  /\ stock_gen = [k \in StockKeys |-> NoGen]
  /\ lastNews = NoCall
  /\ news_gen = [k \in NewsKeys |-> NoGen]

CallStock(symbols, periods, downloads) ==
  /\ \E symbol \in symbols, time_period \in periods, download \in downloads :
       LogStock(symbol, time_period,
                fetch_stock_data(stock_cache, now, symbol, time_period, download))
  /\ lastNews' = NoCall
  /\ UNCHANGED <<symbol1, symbol2, period, api_key, now, news_cache,
                 data1, error1, data2, error2, news_gen>>

CallNews(symbols, responses) ==
  /\ \E symbol \in symbols, response \in responses :
       LogNews(symbol, api_key, response,
               display_news_sentiment(news_cache, now, symbol, api_key, response))
  /\ lastStock' = NoCall
  /\ UNCHANGED <<symbol1, symbol2, period, api_key, now, stock_cache,
                 data1, error1, data2, error2, stock_gen>>

\* Time passes
Advance ==
  /\ now + Tick <= MaxNow
  /\ now' = now + Tick
  /\ UNCHANGED <<symbol1, symbol2, period, api_key, stock_cache, news_cache, pc,
                 data1, error1, data2, error2, lastStock, stock_gen, lastNews,
                 news_gen>>

CacheInit == IdleInit /\ api_key = "live-key"
CacheResponses ==
  {Http(200, <<Article("h_pos"), Article("h_neg_edge")>>), Http(200, <<>>),
   Http(429, <<>>), Timeout}
CacheStock == CallStock({"RELIANCE.NS"}, Periods, Downloads) /\ UNCHANGED pc
CacheNews == CallNews(Symbols, CacheResponses) /\ UNCHANGED pc
CacheNext == CacheStock \/ CacheNews \/ Advance
SpecCache == CacheInit /\ [][CacheNext]_vars

----------------------------------------------------------------------------
(* One cold call of fetch_stock_data, over series of every length up to     *)
(* MaxLen                                                                   *)

IndicatorsFetch ==
  /\ pc = "idle"
  /\ CallStock({"RELIANCE.NS"}, {"3mo"}, SeriesInputs)
  /\ pc' = "called"
IndicatorsInit == IdleInit /\ api_key = ShippedApiKey
IndicatorsNext == IndicatorsFetch
SpecIndicators == IndicatorsInit /\ [][IndicatorsNext]_vars

----------------------------------------------------------------------------
(* One cold call of display_news_sentiment, over every answer of the news   *)
(* provider                                                                 *)

NewsInit == IdleInit /\ api_key \in ApiKeys
NewsShow ==
  /\ pc = "idle"
  /\ CallNews({"RELIANCE.NS"}, AllResponses)
  /\ pc' = "called"
NewsNext == NewsShow
SpecNews == NewsInit /\ [][NewsNext]_vars

----------------------------------------------------------------------------
(* Properties *)

\* C1: a run of the script never ends in an uncaught exception; in particular
\* the comparison section does not read data2 in a run that skipped the
\* second fetch.
C1_RunReachesFinalLine ==
  /\ pc # "crashed"
  /\ pc = "compare" /\ data2 = Unbound => ~ReadsData2

\* C2: with an empty API key or the key the program ships with, the news
\* display issues no HTTP request and reports that the key is not configured.
C2_MissingCredentialBeforeNetwork ==
  lastNews.called /\ lastNews.key[2] \in {"", ShippedApiKey}
    => /\ ~lastNews.requested
       /\ lastNews.message = Str(MsgNotConfigured)

\* C3: an empty article list answered with status 200 comes back as an empty
\* list, unlike every error (whose articles are None), and the display reports
\* it as information, not through st.error.
C3_EmptyIsNotAnError ==
  lastNews.called /\ lastNews.requested /\ lastNews.response.kind = "http"
    /\ lastNews.response.status = 200 /\ lastNews.response.articles = <<>>
    => /\ lastNews.value.articles = List(<<>>)
       /\ lastNews.channel = "info"

\* C4: a call whose key was produced less than the TTL ago does not run the
\* fetcher's body and returns the value produced then; any other call (a key
\* never produced, or produced at least the TTL ago) runs the body.  The TTL
\* is 3600 s for (symbol, period) and 1800 s for news.
C4_CacheRoundTrip ==
  /\ lastStock.called =>
       IF lastStock.prevAt >= 0 /\ lastStock.at < lastStock.prevAt + 3600
       THEN ~lastStock.ran /\ lastStock.value = lastStock.prevValue
       ELSE lastStock.ran
  /\ lastNews.called /\ lastNews.fetched =>
       IF lastNews.prevAt >= 0 /\ lastNews.at < lastNews.prevAt + 1800
       THEN ~lastNews.ran /\ lastNews.value = lastNews.prevValue
       ELSE lastNews.ran

\* a stock key is produced again once its hour is over
C4_Witness ==
  /\ lastStock.called /\ lastStock.ran
  /\ lastStock.prevAt >= 0 /\ lastStock.at >= lastStock.prevAt + 3600
  /\ \E k \in StockKeys : k # lastStock.key /\ stock_gen[k].at >= 0

\* C5: a fresh request's outcome is decided by the HTTP status or the
\* transport failure: 401, 426 and 429 each have their own message, any other
\* status outside 2xx gives the HTTP error with that code, a timeout and a
\* connection failure each have their own message, and an article list comes
\* only from a 200.
C5_StatusClassification ==
  lastNews.called /\ lastNews.requested =>
    LET r == lastNews.response
        v == lastNews.value
        Fails(msg) == v.articles = None /\ v.error = msg
    IN /\ r.kind = "timeout" => Fails(Str(MsgTimeout))
       /\ r.kind = "connection" => Fails(Str(MsgConnection))
       /\ r.kind = "http" =>
            /\ r.status = 401 => Fails(Str(MsgInvalidKey))
            /\ r.status = 426 => Fails(Str(MsgUpgrade))
            /\ r.status = 429 => Fails(Str(MsgRateLimit))
            /\ r.status \notin (200..299) \cup {401, 426, 429} =>
                 Fails([kind |-> "str", text |-> MsgHttp, code |-> r.status])
       /\ v.articles.kind = "list" => r.kind = "http" /\ r.status = 200

C5_Witness ==
  /\ lastNews.called /\ lastNews.requested
  /\ lastNews.response.kind = "http" /\ lastNews.response.status = 429
  /\ lastNews.value.error = Str(MsgRateLimit)

\* the window of RSIWindow gain/loss samples ending at i has no fall
NoFallInWindow(close, i) ==
  \A j \in (i - 13)..i : j > 1 => close[j] >= close[j - 1]

\* C6: at the end of every full 14-sample window without a fall, RSI is 100.
C6_RSISaturates ==
  lastStock.called /\ lastStock.value.data.kind = "DataFrame" =>
    LET d == lastStock.value.data
    IN \A i \in 14..Len(d.Close) :
         NoFallInWindow(d.Close, i) => d.RSI[i] = Num(100, 1)

\* C7: every scored headline has the one label its compound score demands:
\* Positive from 0.05 up, Negative from -0.05 down, Neutral in between; equal
\* scores have equal labels.
C7_LabelPartition ==
  lastNews.called /\ lastNews.channel = "metrics" =>
    LET sd == lastNews.summary.sentiment_data
    IN /\ \A i \in 1..Len(sd) :
            /\ sd[i].score \in -10000..10000
            /\ sd[i].sentiment \in {"Positive", "Neutral", "Negative"}
            /\ sd[i].sentiment = "Positive" <=> sd[i].score >= 500
            /\ sd[i].sentiment = "Negative" <=> sd[i].score <= -500
            /\ sd[i].sentiment = "Neutral" <=> (-500 < sd[i].score /\ sd[i].score < 500)
       /\ \A i, j \in 1..Len(sd) :
            sd[i].score = sd[j].score => sd[i].sentiment = sd[j].sentiment

C7_Witness ==
  /\ lastNews.called /\ lastNews.channel = "metrics"
  /\ \E i, j \in 1..Len(lastNews.summary.sentiment_data) :
       /\ lastNews.summary.sentiment_data[i].score = 500
       /\ lastNews.summary.sentiment_data[i].sentiment = "Positive"
       /\ lastNews.summary.sentiment_data[j].score = -500
       /\ lastNews.summary.sentiment_data[j].sentiment = "Negative"

LabelOf(score) ==
  IF score >= 500 THEN "Positive" ELSE IF score <= -500 THEN "Negative" ELSE "Neutral"

\* the summary of n articles scores the first min(n, 8) in order and its
\* counts are the numbers of those articles with each label
SummaryMatches(items, summary) ==
  LET m == IF Len(items) < 8 THEN Len(items) ELSE 8
      Count(label) ==
        Cardinality({i \in 1..m : LabelOf(Compound(items[i].title)) = label})
  IN /\ summary # NoSummary
     /\ Len(summary.sentiments) = m
     /\ \A i \in 1..m : summary.sentiments[i] = Compound(items[i].title)
     /\ summary.positive_count = Count("Positive")
     /\ summary.neutral_count = Count("Neutral")
     /\ summary.negative_count = Count("Negative")
     /\ summary.positive_count + summary.neutral_count + summary.negative_count = m
     /\ m = 0 => summary.avg_sentiment = Num(0, 1)

C9_MA20Aligned ==
  lastStock.called /\ lastStock.value.data.kind = "DataFrame" =>
    LET d == lastStock.value.data
    IN /\ Len(d.MA20) = Len(d.Close)
       /\ \A i \in 1..Len(d.Close) :
            IF i < 20
            THEN d.MA20[i] = NaN
            ELSE /\ d.MA20[i].kind = "num"
                 /\ d.MA20[i].n * 20 = d.MA20[i].d * SumRange(d.Close, i - 19, i)

C9_Witness ==
  /\ lastStock.called /\ lastStock.value.data.kind = "DataFrame"
  /\ Len(lastStock.value.data.Close) > 20
  /\ lastStock.value.data.MA20[19] = NaN
  /\ lastStock.value.data.MA20[21].kind = "num"
  /\ lastStock.value.data.Close[21] # lastStock.value.data.Close[1]

StockFailed(value) == value.data = None /\ Truthy(value.error)
NewsFailed(value) == value.articles = None /\ Truthy(value.error)

\* C10: a fetcher's failure is a returned (None, message) value, and a key
\* whose latest production failed is answered with that failure, without the
\* body running, until the TTL is over; after that the body runs again.
C10_FailuresMemoized ==
  /\ lastStock.called =>
       /\ lastStock.value.data = None => StockFailed(lastStock.value)
       /\ lastStock.prevAt >= 0 /\ StockFailed(lastStock.prevValue) =>
            IF lastStock.at < lastStock.prevAt + 3600
            THEN ~lastStock.ran /\ lastStock.value = lastStock.prevValue
            ELSE lastStock.ran
  /\ lastNews.called /\ lastNews.fetched =>
       /\ lastNews.value.articles = None => NewsFailed(lastNews.value)
       /\ lastNews.prevAt >= 0 /\ NewsFailed(lastNews.prevValue) =>
            IF lastNews.at < lastNews.prevAt + 1800
            THEN ~lastNews.ran /\ lastNews.value = lastNews.prevValue
            ELSE lastNews.ran

\* a failed stock fetch is served from the store some time after it was made,
\* while the news store holds a failure too
C10_Witness ==
  /\ lastStock.called /\ ~lastStock.ran
  /\ StockFailed(lastStock.value)
  /\ lastStock.at > lastStock.prevAt
  /\ \E k \in NewsKeys : news_gen[k].at >= 0 /\ NewsFailed(news_gen[k].value)

====
